---- MODULE Spec2Model ----
(***************************************************************************)
(* Model of bw2op_totp.py: migration of TOTP secrets from a Bitwarden      *)
(* export into the items of a 1Password vault.                             *)
(*                                                                         *)
(* Python strings are sequences of one-character strings, so that strip,   *)
(* lower, replace, startswith, "in" and urllib.parse.quote are modelled by *)
(* what they do to the characters.  Python's None is the value None below, *)
(* a sequence no Python string is equal to.  A Python dict is a function   *)
(* whose DOMAIN is its key set, so that a missing key differs from a key   *)
(* that holds None.                                                        *)
(***************************************************************************)
EXTENDS Integers, Sequences, FiniteSets, TLC

VARIABLES pc, args, export_file, confirm, op_lookup, bw_data, idx, stats, orphans,
          trace, results, err, last, exit_code, summary,
          f_pc, f_items, f_title, f_user, f_index, f_result, f_trace,
          u_pc, u_secret, u_label, u_once, u_twice

mainvars == <<pc, args, export_file, confirm, op_lookup, bw_data, idx, stats, orphans, trace, results, err, last, exit_code, summary>>
matchvars == <<f_pc, f_items, f_title, f_user, f_index, f_result, f_trace>>
urivars == <<u_pc, u_secret, u_label, u_once, u_twice>>
vars == <<mainvars, matchvars, urivars>>

-----------------------------------------------------------------------------
(* Bounds of the model *)

\* longest source export (items of the Bitwarden file) of a run
MaxItems == 2
\* longest vault listing of a run
MaxVault == 1
\* longest vault listing handed to the index builder and matcher on their own
MaxCands == 2
\* number of pieces a secret handed to construct_otp_url is composed of
MaxPieces == 3

-----------------------------------------------------------------------------
(* Python values *)

None == <<"<None>">>
EmptyDict == [k \in {} |-> None]

\* a str-or-None value x is truthy: `if x`, `x if x else ""`
Truthy(x) == x # None /\ x # <<>>

\* a dict-or-None value read with d.get(k) is truthy: the key holds a non-empty dict
\* (a key that holds null reads like a missing key, and is modelled as one)
TruthyDict(d, k) == k \in DOMAIN d /\ DOMAIN d[k] # {}

\* d.get(k, default)
Get(d, k, default) == IF k \in DOMAIN d THEN d[k] ELSE default

\* str(x) inside an f-string
Str(x) == IF x = None THEN <<"N", "o", "n", "e">> ELSE x

UpperCase == <<"A","B","C","D","E","F","G","H","I","J","K","L","M","N","O","P","Q","R","S","T","U","V","W","X","Y","Z">>
LowerCase == <<"a","b","c","d","e","f","g","h","i","j","k","l","m","n","o","p","q","r","s","t","u","v","w","x","y","z">>
Digits == {"0","1","2","3","4","5","6","7","8","9"}
Whitespace == {" ", "\t", "\n", "\r"}

LowerChar(c) == IF \E i \in 1..26 : UpperCase[i] = c THEN LowerCase[CHOOSE i \in 1..26 : UpperCase[i] = c] ELSE c

\* s.lower()
Lower(s) == [i \in 1..Len(s) |-> LowerChar(s[i])]

\* s.strip()
RECURSIVE LStrip(_)
LStrip(s) == IF s # <<>> /\ Head(s) \in Whitespace THEN LStrip(Tail(s)) ELSE s

RECURSIVE RStrip(_)
RStrip(s) == IF s # <<>> /\ s[Len(s)] \in Whitespace THEN RStrip(SubSeq(s, 1, Len(s) - 1)) ELSE s

Strip(s) == RStrip(LStrip(s))

\* s.startswith(p)
StartsWith(s, p) == Len(s) >= Len(p) /\ SubSeq(s, 1, Len(p)) = p

\* p in s
Contains(s, p) == \E i \in 0..(Len(s) - Len(p)) : SubSeq(s, i + 1, i + Len(p)) = p

\* s.replace(c, "") for a one-character c
RemoveChar(s, c) == SelectSeq(s, LAMBDA x : x # c)

\* urllib.parse.quote(label): the characters quote leaves alone (safe="/")
QuoteSafe == {UpperCase[i] : i \in 1..26} \cup {LowerCase[i] : i \in 1..26} \cup Digits \cup {"_", ".", "-", "~", "/"}

\* the percent-encoding of the other characters
PercentCode(c) == CASE c = " " -> <<"%", "2", "0">>
                    [] c = "?" -> <<"%", "3", "F">>
                    [] c = "&" -> <<"%", "2", "6">>
                    [] c = "%" -> <<"%", "2", "5">>
                    [] c = ":" -> <<"%", "3", "A">>
                    [] c = "=" -> <<"%", "3", "D">>
                    [] c = "\t" -> <<"%", "0", "9">>
                    [] c = "\n" -> <<"%", "0", "A">>
                    [] c = "\r" -> <<"%", "0", "D">>

RECURSIVE Quote(_)
Quote(s) == IF s = <<>> THEN <<>> ELSE (IF Head(s) \in QuoteSafe THEN <<Head(s)>> ELSE PercentCode(Head(s))) \o Quote(Tail(s))

OtpauthPrefix == <<"o","t","p","a","u","t","h",":","/","/">>
TotpPath == <<"t","o","t","p","/">>
SecretParam == <<"?","s","e","c","r","e","t","=">>
IssuerParam == <<"&","i","s","s","u","e","r","=","B","i","t","w","a","r","d","e","n","M","i","g","r","a","t","i","o","n">>

\* construct_otp_url without the test for a secret that is a URI already
construct_otp_url_always(secret, label) ==
    LET stripped == Strip(secret)
        clean_secret == RemoveChar(RemoveChar(stripped, " "), "-")
        encoded_label == Quote(label)
    IN  OtpauthPrefix \o TotpPath \o encoded_label \o SecretParam \o clean_secret \o IssuerParam

\* construct_otp_url with startswith applied to the secret, not to its lower case
construct_otp_url_case_sensitive(secret, label) ==
    LET stripped == Strip(secret)
        clean_secret == RemoveChar(RemoveChar(stripped, " "), "-")
        encoded_label == Quote(label)
    IN  IF StartsWith(stripped, OtpauthPrefix)
        THEN stripped
        ELSE OtpauthPrefix \o TotpPath \o encoded_label \o SecretParam \o clean_secret \o IssuerParam

\* construct_otp_url(secret, label)
construct_otp_url(secret, label) ==
    LET stripped == Strip(secret)
        clean_secret == RemoveChar(RemoveChar(stripped, " "), "-")
        encoded_label == Quote(label)
    IN  IF StartsWith(Lower(stripped), OtpauthPrefix)
        THEN stripped
        ELSE OtpauthPrefix \o TotpPath \o encoded_label \o SecretParam \o clean_secret \o IssuerParam

-----------------------------------------------------------------------------
(* get_op_items: the lookup built from the listing *)

\* the username as listed, None not replaced by the empty string
ListedUsernameRaw(item) == Get(item, "additional_information", <<>>)

\* the username recorded for a listed item
ListedUsername(item) ==
    LET username == Get(item, "additional_information", <<>>)
    IN  IF username = None THEN <<>> ELSE username

\* BuildLookup with lookup[title] = [entry] for append: the last item of a title stays
RECURSIVE BuildLookupOverwrites(_, _)
BuildLookupOverwrites(items, lookup) ==
    IF items = <<>> THEN lookup
    ELSE LET item == Head(items)
             title == Get(item, "title", None)
             op_id == Get(item, "id", None)
             username == ListedUsername(item)
             lookup1 == IF title \notin DOMAIN lookup THEN lookup @@ (title :> <<>>) ELSE lookup
         IN  BuildLookupOverwrites(Tail(items), [lookup1 EXCEPT ![title] = <<[id |-> op_id, username |-> username]>>])

\* the loop over the listed items, from the lookup built so far
RECURSIVE BuildLookup(_, _)
BuildLookup(items, lookup) ==
    IF items = <<>> THEN lookup
    ELSE LET item == Head(items)
             title == Get(item, "title", None)
             op_id == Get(item, "id", None)
             username == ListedUsername(item)
             lookup1 == IF title \notin DOMAIN lookup THEN lookup @@ (title :> <<>>) ELSE lookup
         IN  BuildLookup(Tail(items), [lookup1 EXCEPT ![title] = Append(@, [id |-> op_id, username |-> username])])

-----------------------------------------------------------------------------
(* find_match *)

\* the matcher's normalization of the Bitwarden username
TargetUser(bw_username) == IF Truthy(bw_username) THEN bw_username ELSE <<>>

\* the loop over the candidates without its early return: the last equal username wins
RECURSIVE ScanCandidatesLast(_, _)
ScanCandidatesLast(candidates, target_user) ==
    IF candidates = <<>> THEN None
    ELSE LET later == ScanCandidatesLast(Tail(candidates), target_user)
         IN  IF later # None THEN later
             ELSE IF Head(candidates).username = target_user THEN Head(candidates).id
             ELSE None

\* the loop over the candidates
RECURSIVE ScanCandidates(_, _)
ScanCandidates(candidates, target_user) ==
    IF candidates = <<>> THEN None
    ELSE IF Head(candidates).username = target_user THEN Head(candidates).id
    ELSE ScanCandidates(Tail(candidates), target_user)

\* find_match by title alone: the first candidate under the title, whatever its username
find_match_by_title(title, bw_username, lookup) ==
    IF title \notin DOMAIN lookup THEN None
    ELSE lookup[title][1].id

find_match(title, bw_username, lookup) ==
    IF title \notin DOMAIN lookup THEN None
    ELSE ScanCandidates(lookup[title], TargetUser(bw_username))

-----------------------------------------------------------------------------
(* The inputs of a run: the command line, the vault, the export file *)

TitleA == <<"A">>
TitleB == <<"M", " ", "L">>
Titles == {TitleA, TitleB}
UserAl == <<"a", "l">>
Secret1 == <<"A", "B", " ", "C", "-", "1">>
PathArg == <<"e", ".", "j">>

DigitChar == <<"1", "2", "3", "4", "5", "6", "7", "8", "9">>
\* the identifier the vault assigned to the i-th listed item
VaultId(i) == <<"X", DigitChar[i]>>

\* what `op item list` prints for one item, its id aside
VaultShapes == {[title |-> t, additional_information |-> u] : t \in Titles, u \in {None, <<>>, UserAl}} \cup {[title |-> t] : t \in Titles}

\* the listings of at most n items
Listings(n) == UNION {{[i \in 1..k |-> shapes[i] @@ ("id" :> VaultId(i))] : shapes \in [1..k -> VaultShapes]} : k \in 0..n}

\* the items of a Bitwarden export
BwSecretItems == {[name |-> t, login |-> [username |-> u, totp |-> Secret1]] : t \in Titles, u \in {None, <<>>, UserAl}} \cup {[name |-> TitleA, login |-> [totp |-> Secret1]]}
BwPlainItems == {[name |-> TitleA], [name |-> TitleA, login |-> [username |-> UserAl, totp |-> <<>>]]}
BwItems == BwSecretItems \cup BwPlainItems

\* the parsed exports: a dict with an "items" list of at most n items, or without one
BwExports(n) == {EmptyDict} \cup UNION {{[items |-> its] : its \in [1..k -> BwItems]} : k \in 0..n}

\* the file at the path given: missing, not parseable, or holding an export
ExportFiles(n) == {[exists |-> FALSE, parses |-> FALSE, data |-> EmptyDict], [exists |-> TRUE, parses |-> FALSE, data |-> EmptyDict]} \cup {[exists |-> TRUE, parses |-> TRUE, data |-> d] : d \in BwExports(n)}

\* what the operator may type at the prompt
AnswerYes == <<"y", "e", "s">>
Answers == {AnswerYes, <<"Y", "E", "S">>, <<>>, <<"n", "o">>, <<"y">>, <<" ", "y", "e", "s">>}

\* how an `op item edit` may end: exit status and standard error
FieldNotFound == <<"f","i","e","l","d"," ","n","o","t"," ","f","o","u","n","d">>
Stderrs == {FieldNotFound, <<"e", ":", " ">> \o FieldNotFound \o <<"\n">>, <<"F">> \o Tail(FieldNotFound), <<"d", "e", "n", "i", "e", "d", "\n">>}
CmdOutcomes == {[rc |-> 0, stderr |-> <<>>]} \cup {[rc |-> 1, stderr |-> e] : e \in Stderrs}

ArgsSet == [license : BOOLEAN, file : {None, PathArg}, dry_run : BOOLEAN, clear : BOOLEAN]

ZeroStats == [found_in_bw |-> 0, matched |-> 0, success |-> 0, fail |-> 0]
Msg(m, d) == [msg |-> m, detail |-> d]
Cmd(c, i, v) == [cmd |-> c, id |-> i, value |-> v]

-----------------------------------------------------------------------------
(* The functions on their own: their variables when main runs *)

MatchIdle == f_pc = "idle" /\ f_items = <<>> /\ f_title = None /\ f_user = None /\ f_index = EmptyDict /\ f_result = None /\ f_trace = <<>>
UriIdle == u_pc = "idle" /\ u_secret = <<>> /\ u_label = <<>> /\ u_once = <<>> /\ u_twice = <<>>
MainIdle == pc = "idle" /\ args = [license |-> FALSE, file |-> None, dry_run |-> TRUE, clear |-> FALSE] /\ export_file = [exists |-> FALSE, parses |-> FALSE, data |-> EmptyDict] /\ err = None /\ confirm = None /\ op_lookup = EmptyDict /\ bw_data = EmptyDict /\ idx = 1 /\ stats = ZeroStats /\ orphans = <<>> /\ trace = <<>> /\ results = <<>> /\ last = Msg("", <<>>) /\ exit_code = 0 /\ summary = <<>>

-----------------------------------------------------------------------------
(* main *)

Init ==
    /\ pc = "parse"
    /\ args \in ArgsSet
    /\ export_file \in ExportFiles(MaxItems)
    /\ confirm = None
    /\ err = None
    /\ op_lookup = EmptyDict
    /\ bw_data = EmptyDict
    /\ idx = 1
    /\ stats = ZeroStats
    /\ orphans = <<>>
    /\ trace = <<>>
    /\ results = <<>>
    /\ last = Msg("", <<>>)
    /\ exit_code = 0
    /\ summary = <<>>
    /\ MatchIdle
    /\ UriIdle

\* sys.exit(code) after printing m
Exit(code, m) ==
    /\ pc' = "exited"
    /\ exit_code' = code
    /\ last' = m

\* parse_arguments: with no argument at all, the help text and exit status 1
ParseArguments ==
    /\ pc = "parse"
    /\ IF args.file = None /\ ~args.license /\ ~args.dry_run /\ ~args.clear
       THEN Exit(1, Msg("help", <<>>))
       ELSE pc' = "license" /\ UNCHANGED <<exit_code, last>>
    /\ UNCHANGED <<args, export_file, confirm, op_lookup, bw_data, idx, stats, orphans, trace, results, err, summary, matchvars, urivars>>

CheckLicense ==
    /\ pc = "license"
    /\ IF args.license
       THEN Exit(0, Msg("license", <<>>))
       ELSE pc' = "file_arg" /\ UNCHANGED <<exit_code, last>>
    /\ UNCHANGED <<args, export_file, confirm, op_lookup, bw_data, idx, stats, orphans, trace, results, err, summary, matchvars, urivars>>

CheckFileArg ==
    /\ pc = "file_arg"
    /\ IF ~Truthy(args.file)
       THEN Exit(1, Msg("file_required", <<>>))
       ELSE pc' = "file_exists" /\ UNCHANGED <<exit_code, last>>
    /\ UNCHANGED <<args, export_file, confirm, op_lookup, bw_data, idx, stats, orphans, trace, results, err, summary, matchvars, urivars>>

\* os.path.exists(args.file)
CheckFileExists ==
    /\ pc = "file_exists"
    /\ IF ~export_file.exists
       THEN Exit(1, Msg("file_not_found", args.file))
       ELSE pc' = "confirm" /\ UNCHANGED <<exit_code, last>>
    /\ UNCHANGED <<args, export_file, confirm, op_lookup, bw_data, idx, stats, orphans, trace, results, err, summary, matchvars, urivars>>

\* Confirm without the test of the answer: whatever is typed, the run goes on
ConfirmAnyAnswer ==
    /\ pc = "confirm"
    /\ IF ~args.dry_run
       THEN \E answer \in Answers : confirm' = answer /\ pc' = "op_version" /\ exit_code' = exit_code /\ last' = Msg("warning", <<>>)
       ELSE pc' = "op_version" /\ UNCHANGED <<confirm, exit_code, last>>
    /\ UNCHANGED <<args, export_file, op_lookup, bw_data, idx, stats, orphans, trace, results, err, summary, matchvars, urivars>>

\* Confirm with the answer stripped of surrounding whitespace before the test
ConfirmStripsAnswer ==
    /\ pc = "confirm"
    /\ IF ~args.dry_run
       THEN \E answer \in Answers :
               /\ confirm' = answer
               /\ IF Lower(Strip(answer)) # AnswerYes
                  THEN Exit(0, Msg("aborted", <<>>))
                  ELSE pc' = "op_version" /\ exit_code' = exit_code /\ last' = Msg("warning", <<>>)
       ELSE pc' = "op_version" /\ UNCHANGED <<confirm, exit_code, last>>
    /\ UNCHANGED <<args, export_file, op_lookup, bw_data, idx, stats, orphans, trace, results, err, summary, matchvars, urivars>>

\* the safety warnings and the prompt of a live run
Confirm ==
    /\ pc = "confirm"
    /\ IF ~args.dry_run
       THEN \E answer \in Answers :
               /\ confirm' = answer
               /\ IF Lower(answer) # AnswerYes
                  THEN Exit(0, Msg("aborted", <<>>))
                  ELSE pc' = "op_version" /\ exit_code' = exit_code /\ last' = Msg("warning", <<>>)
       ELSE pc' = "op_version" /\ UNCHANGED <<confirm, exit_code, last>>
    /\ UNCHANGED <<args, export_file, op_lookup, bw_data, idx, stats, orphans, trace, results, err, summary, matchvars, urivars>>

\* get_op_items: subprocess.run(["op", "--version"], check=True)
OpVersion ==
    /\ pc = "op_version"
    /\ \E outcome \in {"not_found", "failed", "ok"} :
          CASE outcome = "not_found" -> Exit(1, Msg("op_not_found", <<>>)) /\ UNCHANGED trace
            [] outcome = "failed" -> Exit(1, Msg("fetch_error", <<>>)) /\ trace' = Append(trace, Cmd("version", <<>>, <<>>))
            [] outcome = "ok" -> pc' = "op_list" /\ trace' = Append(trace, Cmd("version", <<>>, <<>>)) /\ UNCHANGED <<exit_code, last>>
    /\ UNCHANGED <<args, export_file, confirm, op_lookup, bw_data, idx, stats, orphans, results, err, summary, matchvars, urivars>>

\* get_op_items: the list query, json.loads of its output and the lookup
OpItemList ==
    /\ pc = "op_list"
    /\ trace' = Append(trace, Cmd("list", <<>>, <<>>))
    /\ \/ \E e \in Stderrs : Exit(1, Msg("fetch_error", e)) /\ UNCHANGED op_lookup
       \/ \E items \in Listings(MaxVault) :
             /\ op_lookup' = BuildLookup(items, EmptyDict)
             /\ pc' = "load"
             /\ UNCHANGED <<exit_code, last>>
    /\ UNCHANGED <<args, export_file, confirm, bw_data, idx, stats, orphans, results, err, summary, matchvars, urivars>>

\* LoadData without sys.exit(1) in its except clause: the run goes on with no data
LoadDataGoesOn ==
    /\ pc = "load"
    /\ IF ~export_file.parses
       THEN last' = Msg("read_error", args.file) /\ bw_data' = EmptyDict
       ELSE last' = Msg("starting", <<>>) /\ bw_data' = export_file.data
    /\ stats' = ZeroStats
    /\ orphans' = <<>>
    /\ idx' = 1
    /\ pc' = "loop"
    /\ UNCHANGED <<args, export_file, confirm, op_lookup, trace, results, err, exit_code, summary, matchvars, urivars>>

\* main: json.load of the export, then the labels, the counters and the item list
LoadData ==
    /\ pc = "load"
    /\ IF ~export_file.parses
       THEN Exit(1, Msg("read_error", args.file)) /\ UNCHANGED <<bw_data, idx, stats, orphans>>
       ELSE /\ bw_data' = export_file.data
            /\ stats' = ZeroStats
            /\ orphans' = <<>>
            /\ idx' = 1
            /\ pc' = "loop"
            /\ last' = Msg("starting", <<>>)
            /\ UNCHANGED exit_code
    /\ UNCHANGED <<args, export_file, confirm, op_lookup, trace, results, err, summary, matchvars, urivars>>

items_processed == Get(bw_data, "items", <<>>)

\* item.get('login') and item['login'].get('totp')
HasTotp(item) == TruthyDict(item, "login") /\ Truthy(Get(item["login"], "totp", None))

ItemTitle(item) == Get(item, "name", None)
ItemUsername(item) == Get(Get(item, "login", EmptyDict), "username", None)

\* f"{title} (User: {bw_username})"
OrphanText(title, bw_username) == Str(title) \o <<" ", "(", "U", "s", "e", "r", ":", " ">> \o Str(bw_username) \o <<")">>

\* the loop is at an item, and op_id is what find_match returns for it
AtItem == pc = "loop" /\ idx <= Len(items_processed)
CurItem == items_processed[idx]
CurMatch == find_match(ItemTitle(CurItem), ItemUsername(CurItem), op_lookup)

\* LoopSkip with the test for a secret dropped: the item is counted as discovered
LoopSkipCounts ==
    /\ AtItem
    /\ ~HasTotp(CurItem)
    /\ idx' = idx + 1
    /\ stats' = [stats EXCEPT !.found_in_bw = @ + 1]
    /\ UNCHANGED <<pc, args, export_file, confirm, op_lookup, bw_data, orphans, trace, results, err, last, exit_code, summary, matchvars, urivars>>

\* an item without a secret: nothing happens
LoopSkip ==
    /\ AtItem
    /\ ~HasTotp(CurItem)
    /\ idx' = idx + 1
    /\ UNCHANGED <<pc, args, export_file, confirm, op_lookup, bw_data, stats, orphans, trace, results, err, last, exit_code, summary, matchvars, urivars>>

\* LoopOrphan with the item counted as matched too
LoopOrphanCountsMatched ==
    /\ AtItem
    /\ HasTotp(CurItem)
    /\ ~Truthy(CurMatch)
    /\ stats' = [stats EXCEPT !.found_in_bw = @ + 1, !.matched = @ + 1]
    /\ orphans' = Append(orphans, OrphanText(ItemTitle(CurItem), ItemUsername(CurItem)))
    /\ idx' = idx + 1
    /\ UNCHANGED <<pc, args, export_file, confirm, op_lookup, bw_data, trace, results, err, last, exit_code, summary, matchvars, urivars>>

\* a secret-bearing item that find_match does not match
LoopOrphan ==
    /\ AtItem
    /\ HasTotp(CurItem)
    /\ ~Truthy(CurMatch)
    /\ stats' = [stats EXCEPT !.found_in_bw = @ + 1]
    /\ orphans' = Append(orphans, OrphanText(ItemTitle(CurItem), ItemUsername(CurItem)))
    /\ idx' = idx + 1
    /\ UNCHANGED <<pc, args, export_file, confirm, op_lookup, bw_data, trace, results, err, last, exit_code, summary, matchvars, urivars>>

\* LoopDryRun without the dry-run test of the clear branch: the command is issued
LoopDryRunIssues ==
    /\ AtItem
    /\ HasTotp(CurItem)
    /\ Truthy(CurMatch)
    /\ args.dry_run
    /\ stats' = [stats EXCEPT !.found_in_bw = @ + 1, !.matched = @ + 1]
    /\ last' = Msg(IF args.clear THEN "live_delete" ELSE "dry_update", ItemTitle(CurItem))
    /\ trace' = IF args.clear THEN Append(trace, Cmd("delete", CurMatch, <<>>)) ELSE trace
    /\ pc' = IF args.clear THEN "wait_delete" ELSE pc
    /\ idx' = IF args.clear THEN idx ELSE idx + 1
    /\ UNCHANGED <<args, export_file, confirm, op_lookup, bw_data, orphans, results, err, exit_code, summary, matchvars, urivars>>

\* a matched item of a dry run, in either mode: the report only
LoopDryRun ==
    /\ AtItem
    /\ HasTotp(CurItem)
    /\ Truthy(CurMatch)
    /\ args.dry_run
    /\ stats' = [stats EXCEPT !.found_in_bw = @ + 1, !.matched = @ + 1]
    /\ last' = Msg(IF args.clear THEN "dry_delete" ELSE "dry_update", ItemTitle(CurItem))
    /\ idx' = idx + 1
    /\ UNCHANGED <<pc, args, export_file, confirm, op_lookup, bw_data, orphans, trace, results, err, exit_code, summary, matchvars, urivars>>

\* a matched item of a live clear run: op item edit <id> "one-time password[delete]"
LoopIssueDelete ==
    /\ AtItem
    /\ HasTotp(CurItem)
    /\ Truthy(CurMatch)
    /\ args.clear /\ ~args.dry_run
    /\ stats' = [stats EXCEPT !.found_in_bw = @ + 1, !.matched = @ + 1]
    /\ last' = Msg("live_delete", ItemTitle(CurItem))
    /\ trace' = Append(trace, Cmd("delete", CurMatch, <<>>))
    /\ pc' = "wait_delete"
    /\ UNCHANGED <<args, export_file, confirm, op_lookup, bw_data, idx, orphans, results, err, exit_code, summary, matchvars, urivars>>

\* LoopIssueSet with the secret of the export as the value, not the URI built from it
LoopIssueSetPlain ==
    /\ AtItem
    /\ HasTotp(CurItem)
    /\ Truthy(CurMatch)
    /\ ~args.clear /\ ~args.dry_run
    /\ stats' = [stats EXCEPT !.found_in_bw = @ + 1, !.matched = @ + 1]
    /\ last' = Msg("live_update", ItemTitle(CurItem))
    /\ trace' = Append(trace, Cmd("set", CurMatch, CurItem["login"]["totp"]))
    /\ pc' = "wait_set"
    /\ UNCHANGED <<args, export_file, confirm, op_lookup, bw_data, idx, orphans, results, err, exit_code, summary, matchvars, urivars>>

\* LoopIssueSet with the command issued a second time for the same item
LoopIssueSetTwice ==
    /\ AtItem
    /\ HasTotp(CurItem)
    /\ Truthy(CurMatch)
    /\ ~args.clear /\ ~args.dry_run
    /\ stats' = [stats EXCEPT !.found_in_bw = @ + 1, !.matched = @ + 1]
    /\ last' = Msg("live_update", ItemTitle(CurItem))
    /\ trace' = trace \o << Cmd("set", CurMatch, construct_otp_url(CurItem["login"]["totp"], ItemTitle(CurItem))),
                           Cmd("set", CurMatch, construct_otp_url(CurItem["login"]["totp"], ItemTitle(CurItem))) >>
    /\ pc' = "wait_set"
    /\ UNCHANGED <<args, export_file, confirm, op_lookup, bw_data, idx, orphans, results, err, exit_code, summary, matchvars, urivars>>

\* a matched item of a live update run: op item edit <id> "one-time password[otp]=<uri>"
LoopIssueSet ==
    /\ AtItem
    /\ HasTotp(CurItem)
    /\ Truthy(CurMatch)
    /\ ~args.clear /\ ~args.dry_run
    /\ stats' = [stats EXCEPT !.found_in_bw = @ + 1, !.matched = @ + 1]
    /\ last' = Msg("live_update", ItemTitle(CurItem))
    /\ trace' = Append(trace, Cmd("set", CurMatch, construct_otp_url(CurItem["login"]["totp"], ItemTitle(CurItem))))
    /\ pc' = "wait_set"
    /\ UNCHANGED <<args, export_file, confirm, op_lookup, bw_data, idx, orphans, results, err, exit_code, summary, matchvars, urivars>>

\* DeleteReturns without the "field not found" case: every failure is counted
DeleteReturnsCountsAll ==
    /\ pc = "wait_delete"
    /\ \E outcome \in CmdOutcomes :
          /\ results' = Append(results, outcome.rc)
          /\ err' = IF outcome.rc = 0 THEN None ELSE outcome.stderr
          /\ IF outcome.rc = 0
             THEN stats' = [stats EXCEPT !.success = @ + 1] /\ UNCHANGED last
             ELSE last' = Msg("fail_delete", Strip(outcome.stderr)) /\ stats' = [stats EXCEPT !.fail = @ + 1]
    /\ idx' = idx + 1
    /\ pc' = "loop"
    /\ UNCHANGED <<args, export_file, confirm, op_lookup, bw_data, orphans, trace, exit_code, summary, matchvars, urivars>>

\* DeleteReturns without the except clause: a failed command ends the run
DeleteReturnsAborts ==
    /\ pc = "wait_delete"
    /\ \E outcome \in CmdOutcomes :
          /\ results' = Append(results, outcome.rc)
          /\ err' = IF outcome.rc = 0 THEN None ELSE outcome.stderr
          /\ IF outcome.rc = 0
             THEN stats' = [stats EXCEPT !.success = @ + 1] /\ idx' = idx + 1 /\ pc' = "loop" /\ UNCHANGED <<last, exit_code>>
             ELSE Exit(1, Msg("traceback", outcome.stderr)) /\ UNCHANGED <<stats, idx>>
    /\ UNCHANGED <<args, export_file, confirm, op_lookup, bw_data, orphans, trace, summary, matchvars, urivars>>

\* the delete command returns: success, or CalledProcessError and its two cases
DeleteReturns ==
    /\ pc = "wait_delete"
    /\ \E outcome \in CmdOutcomes :
          /\ results' = Append(results, outcome.rc)
          /\ err' = IF outcome.rc = 0 THEN None ELSE outcome.stderr
          /\ IF outcome.rc = 0
             THEN stats' = [stats EXCEPT !.success = @ + 1] /\ UNCHANGED last
             ELSE IF Contains(outcome.stderr, FieldNotFound)
                  THEN last' = Msg("info_gone", outcome.stderr) /\ UNCHANGED stats
                  ELSE last' = Msg("fail_delete", Strip(outcome.stderr)) /\ stats' = [stats EXCEPT !.fail = @ + 1]
    /\ idx' = idx + 1
    /\ pc' = "loop"
    /\ UNCHANGED <<args, export_file, confirm, op_lookup, bw_data, orphans, trace, exit_code, summary, matchvars, urivars>>

\* SetReturns with the "field not found" case of the delete command
SetReturnsBenign ==
    /\ pc = "wait_set"
    /\ \E outcome \in CmdOutcomes :
          /\ results' = Append(results, outcome.rc)
          /\ err' = IF outcome.rc = 0 THEN None ELSE outcome.stderr
          /\ IF outcome.rc = 0
             THEN stats' = [stats EXCEPT !.success = @ + 1] /\ UNCHANGED last
             ELSE IF Contains(outcome.stderr, FieldNotFound)
                  THEN last' = Msg("info_gone", outcome.stderr) /\ UNCHANGED stats
                  ELSE last' = Msg("fail_update", Strip(outcome.stderr)) /\ stats' = [stats EXCEPT !.fail = @ + 1]
    /\ idx' = idx + 1
    /\ pc' = "loop"
    /\ UNCHANGED <<args, export_file, confirm, op_lookup, bw_data, orphans, trace, exit_code, summary, matchvars, urivars>>

\* the set command returns: success, or CalledProcessError
SetReturns ==
    /\ pc = "wait_set"
    /\ \E outcome \in CmdOutcomes :
          /\ results' = Append(results, outcome.rc)
          /\ err' = IF outcome.rc = 0 THEN None ELSE outcome.stderr
          /\ IF outcome.rc = 0
             THEN stats' = [stats EXCEPT !.success = @ + 1] /\ UNCHANGED last
             ELSE last' = Msg("fail_update", Strip(outcome.stderr)) /\ stats' = [stats EXCEPT !.fail = @ + 1]
    /\ idx' = idx + 1
    /\ pc' = "loop"
    /\ UNCHANGED <<args, export_file, confirm, op_lookup, bw_data, orphans, trace, exit_code, summary, matchvars, urivars>>

\* after the last item: the summary, and the process ends with status 0
Summary ==
    /\ pc = "loop"
    /\ idx > Len(items_processed)
    /\ summary' = Append(summary, [action |-> IF args.clear THEN "CLEARING/DELETING" ELSE "UPDATING",
                                    found_in_bw |-> stats.found_in_bw,
                                    matched |-> stats.matched,
                                    actions |-> IF ~args.dry_run THEN <<stats.success, stats.fail>> ELSE <<>>,
                                    orphans |-> orphans])
    /\ pc' = "exited"
    /\ UNCHANGED <<args, export_file, confirm, op_lookup, bw_data, idx, stats, orphans, trace, results, err, last, exit_code, matchvars, urivars>>

Next ==
    \/ ParseArguments
    \/ CheckLicense
    \/ CheckFileArg
    \/ CheckFileExists
    \/ Confirm
    \/ OpVersion
    \/ OpItemList
    \/ LoadData
    \/ LoopSkip
    \/ LoopOrphan
    \/ LoopDryRun
    \/ LoopIssueDelete
    \/ LoopIssueSet
    \/ DeleteReturns
    \/ SetReturns
    \/ Summary

Spec == Init /\ [][Next]_vars

-----------------------------------------------------------------------------
(* get_op_items and find_match on their own *)

UserAL == <<"A", "l">>
TitleC == <<"C">>

\* listed items with usernames that differ in letter case only
MatchShapes == VaultShapes \cup {[title |-> t, additional_information |-> UserAL] : t \in Titles}
MatchListings(n) == UNION {{[i \in 1..k |-> shapes[i] @@ ("id" :> VaultId(i))] : shapes \in [1..k -> MatchShapes]} : k \in 0..n}

MatchInit ==
    /\ f_pc = "input"
    /\ f_items \in MatchListings(MaxCands)
    /\ f_title \in Titles \cup {TitleC}
    /\ f_user \in {None, <<>>, UserAl, UserAL}
    /\ f_index = EmptyDict
    /\ f_result = None
    /\ f_trace = <<>>
    /\ MainIdle
    /\ UriIdle

\* get_op_items: subprocess.run(["op", "--version"], check=True)
MatchProbe ==
    /\ f_pc = "input"
    /\ \E outcome \in {"not_found", "failed", "ok"} :
          CASE outcome = "not_found" -> f_pc' = "failed" /\ UNCHANGED f_trace
            [] outcome = "failed" -> f_pc' = "failed" /\ f_trace' = Append(f_trace, Cmd("version", <<>>, <<>>))
            [] outcome = "ok" -> f_pc' = "probed" /\ f_trace' = Append(f_trace, Cmd("version", <<>>, <<>>))
    /\ UNCHANGED <<f_items, f_title, f_user, f_index, f_result, mainvars, urivars>>

\* get_op_items: the list query, then lookup = {} and the loop over the listing
MatchBuild ==
    /\ f_pc = "probed"
    /\ f_trace' = Append(f_trace, Cmd("list", <<>>, <<>>))
    /\ \/ f_pc' = "failed" /\ UNCHANGED f_index
       \/ f_index' = BuildLookup(f_items, EmptyDict) /\ f_pc' = "indexed"
    /\ UNCHANGED <<f_items, f_title, f_user, f_result, mainvars, urivars>>

\* op_id = find_match(title, bw_username, op_lookup)
MatchFind ==
    /\ f_pc = "indexed"
    /\ f_result' = find_match(f_title, f_user, f_index)
    /\ f_pc' = "matched"
    /\ UNCHANGED <<f_items, f_title, f_user, f_index, f_trace, mainvars, urivars>>

MatchNext ==
    \/ MatchProbe
    \/ MatchBuild
    \/ MatchFind

SpecMatch == MatchInit /\ [][MatchNext]_vars

-----------------------------------------------------------------------------
(* construct_otp_url on its own *)

UpperPrefix == <<"O","T","P","A","u","t","h",":","/","/">>
NearPrefix == <<"o","t","p","a","u","t","h",":","/">>
SecretPieces == {<<" ">>, <<"\t">>, <<"-">>, <<"A">>, <<"b", "2">>, OtpauthPrefix, UpperPrefix, NearPrefix}
Labels == {TitleA, TitleB, <<"a", "&", "b", "?">>}

RECURSIVE Concat(_)
Concat(pieces) == IF pieces = <<>> THEN <<>> ELSE Head(pieces) \o Concat(Tail(pieces))

\* the secrets made of at most n pieces
Secrets(n) == UNION {{Concat(ps) : ps \in [1..k -> SecretPieces]} : k \in 0..n}

UriInit ==
    /\ u_pc = "input"
    /\ u_secret \in Secrets(MaxPieces)
    /\ u_label \in Labels
    /\ u_once = <<>>
    /\ u_twice = <<>>
    /\ MainIdle
    /\ MatchIdle

\* otp_value = construct_otp_url(totp_secret, title)
UriOnce ==
    /\ u_pc = "input"
    /\ u_once' = construct_otp_url(u_secret, u_label)
    /\ u_pc' = "once"
    /\ UNCHANGED <<u_secret, u_label, u_twice, mainvars, matchvars>>

\* construct_otp_url applied to its own result, with the same label
UriTwice ==
    /\ u_pc = "once"
    /\ u_twice' = construct_otp_url(u_once, u_label)
    /\ u_pc' = "twice"
    /\ UNCHANGED <<u_secret, u_label, u_once, mainvars, matchvars>>

UriNext ==
    \/ UriOnce
    \/ UriTwice

SpecUri == UriInit /\ [][UriNext]_vars

-----------------------------------------------------------------------------
(* Properties *)

IsEdit(c) == c.cmd \in {"delete", "set"}
Edits == {i \in 1..Len(trace) : IsEdit(trace[i])}
LoopPcs == {"loop", "wait_delete", "wait_set"}
\* the number of secret-bearing items of a list
NumTotp(items) == Cardinality({i \in 1..Len(items) : HasTotp(items[i])})

\* C1: in a dry run, in either mode, no set-field or delete-field command is ever
\* issued or awaited, and the success and failure counters never leave 0.
C1_DryRunIssuesNothing ==
    args.dry_run => /\ Edits = {}
                    /\ results = <<>>
                    /\ pc \notin {"wait_delete", "wait_set"}
                    /\ stats.success = 0 /\ stats.fail = 0

\* a dry run that matched two records and printed its summary
C1_Witness == args.dry_run /\ pc = "exited" /\ Len(summary) = 1 /\ stats.matched = 2

\* C2: in a live run an edit command is in the trace only after the prompt was
\* answered, and only when the answer, lower-cased, is "yes".
C2_ConfirmedBeforeMutation ==
    ~args.dry_run => /\ pc \in {"parse", "license", "file_arg", "file_exists", "confirm"} => trace = <<>> /\ confirm = None
                     /\ (trace # <<>> \/ pc \in LoopPcs) => confirm # None /\ Lower(confirm) = AnswerYes

\* a live run confirmed with "YES" that issued a set-field command
C2_Witness == ~args.dry_run /\ confirm = <<"Y", "E", "S">> /\ \E i \in Edits : trace[i].cmd = "set"

\* what is left of the loop: the items not yet examined, and the command awaited
LoopVariant == 2 * (Len(items_processed) + 1 - idx) + (IF pc = "loop" THEN 1 ELSE 0)

\* a step that stays in the loop and shortens it, or prints the summary
LoopGoesOn ==
    /\ (pc' \in LoopPcs) \/ (pc' = "exited" /\ Len(summary') = 1)
    /\ LoopVariant' < LoopVariant
    /\ LoopVariant' >= 0

\* C3: in every state of the per-record loop a step is possible (a command that
\* was issued returns, the next item is examined or the summary is printed); every
\* such step, whatever an edit command returned, stays in the loop and brings it
\* nearer its end, or prints the summary; and the summary is printed with status 0
\* once every item was examined, with every secret-bearing item counted as
\* discovered and either matched or listed as an orphan.
C3_FailureNeverAborts ==
    /\ [](pc \in LoopPcs => ENABLED Next)
    /\ [][(pc \in LoopPcs) => LoopGoesOn]_vars
    /\ [](pc = "exited" /\ Len(summary) = 1 =>
            /\ exit_code = 0
            /\ idx = Len(items_processed) + 1
            /\ stats.found_in_bw = NumTotp(items_processed)
            /\ stats.matched + Len(orphans) = stats.found_in_bw
            /\ summary[1].found_in_bw = stats.found_in_bw
            /\ summary[1].matched = stats.matched
            /\ summary[1].orphans = orphans)

\* a live run whose first edit command failed and whose second succeeded, summary printed
C3_Witness == pc = "exited" /\ Len(summary) = 1 /\ results = <<1, 0>> /\ stats.fail = 1

\* the candidates the index lists under a title, and those of them with a username
CandidatesOf(index, title) == IF title \in DOMAIN index THEN index[title] ELSE <<>>
NullToEmpty(u) == IF u = None THEN <<>> ELSE u
Hits(index, title, u) == {i \in 1..Len(CandidatesOf(index, title)) : CandidatesOf(index, title)[i].username = NullToEmpty(u)}

\* C4: find_match returns the identifier of the first candidate, in index order,
\* listed under the title with a username equal to the input username (None read
\* as the empty string), and None when the title is absent or no username is equal.
C4_FirstExactMatch ==
    f_pc = "matched" =>
        IF Hits(f_index, f_title, f_user) = {}
        THEN f_result = None
        ELSE f_result = f_index[f_title][CHOOSE i \in Hits(f_index, f_title, f_user) : \A j \in Hits(f_index, f_title, f_user) : i <= j].id

\* two candidates under the title with the input username: the first is returned
C4_Witness == f_pc = "matched" /\ f_user = UserAl /\ Hits(f_index, f_title, f_user) = {1, 2} /\ f_result = VaultId(1)

\* what C5 asks of the step that examines a secret-bearing item
C5_Step ==
    /\ stats'.found_in_bw = stats.found_in_bw + 1
    /\ IF Hits(op_lookup, ItemTitle(CurItem), ItemUsername(CurItem)) # {}
       THEN /\ stats'.matched = stats.matched + 1
            /\ orphans' = orphans
            /\ IF args.dry_run
               THEN trace' = trace /\ last'.msg \in {"dry_delete", "dry_update"}
               ELSE Len(trace') = Len(trace) + 1 /\ IsEdit(trace'[Len(trace')]) /\ pc' \in {"wait_delete", "wait_set"}
       ELSE /\ Len(orphans') = Len(orphans) + 1
            /\ SubSeq(orphans', 1, Len(orphans)) = orphans
            /\ trace' = trace
            /\ pc' = "loop"
            /\ stats'.matched = stats.matched
            /\ stats'.success = stats.success
            /\ stats'.fail = stats.fail

\* C5: examining a secret-bearing item increments matched and dispatches (the
\* dry-run report, or one edit command) exactly when the index lists a candidate
\* under the item's title with the item's normalized username; otherwise one
\* orphan is appended, no command is issued and matched, success and fail stay.
C5_MatchOrOrphan == [][(AtItem /\ HasTotp(CurItem)) => C5_Step]_vars

\* one item matched and one, of the same title but another username, orphaned
C5_Witness ==
    /\ pc = "exited" /\ Len(summary) = 1
    /\ stats.matched = 1 /\ Len(orphans) = 1
    /\ DOMAIN op_lookup = {TitleA}
    /\ \A i \in 1..Len(items_processed) : HasTotp(items_processed[i]) /\ ItemTitle(items_processed[i]) = TitleA

\* C6: when a delete-field command fails, a standard error that contains "field
\* not found" leaves all counters as they were, any other failure adds one to fail
\* and nothing to success; either way the loop goes on with the next item.
C6_BenignDeleteFailure ==
    [][(pc = "wait_delete" /\ err' # None) =>
          /\ pc' = "loop" /\ idx' = idx + 1
          /\ IF Contains(err', FieldNotFound)
             THEN stats' = stats
             ELSE stats' = [stats EXCEPT !.fail = @ + 1]]_vars

\* a live clear run with one benign and one reported failure
C6_Witness ==
    /\ args.clear /\ ~args.dry_run /\ pc = "exited" /\ Len(summary) = 1
    /\ results = <<1, 1>> /\ stats.matched = 2 /\ stats.fail = 1 /\ stats.success = 0

FatalMsgs == {"op_not_found", "fetch_error", "file_not_found", "read_error"}

\* C7: once the diagnostic of a fatal error is printed (op not found, the version
\* probe or the listing failed, the export is missing or unreadable) the run has
\* ended with a non-zero status, with no edit command, no counter incremented, no
\* orphan and no summary; and a run on an export that does not parse never
\* reaches the per-record loop.
C7_FatalBeforeLoop ==
    /\ last.msg \in FatalMsgs =>
          /\ pc = "exited" /\ exit_code # 0
          /\ Edits = {} /\ results = <<>>
          /\ stats = ZeroStats /\ orphans = <<>> /\ summary = <<>>
    /\ ~export_file.parses => pc \notin LoopPcs /\ summary = <<>> /\ stats = ZeroStats /\ Edits = {}

\* a confirmed live run that listed the vault and then failed to read the export
C7_Witness == last.msg = "read_error" /\ ~args.dry_run /\ Len(trace) = 2 /\ pc = "exited" /\ exit_code = 1

\* C8: construct_otp_url applied to its own result, with the same label, returns
\* that result.
C8_Idempotent == u_pc = "twice" => u_twice = u_once

\* a secret with surrounding whitespace and the prefix in upper case
C8_Witness ==
    /\ u_pc = "twice"
    /\ Strip(u_secret) # u_secret
    /\ StartsWith(Strip(u_secret), UpperPrefix)
    /\ u_twice = Strip(u_secret)

\* the listed username of an item is null, absent or empty
ListedBlank(item) == "additional_information" \notin DOMAIN item \/ item["additional_information"] \in {None, <<>>}
\* the listed item is one the input (title, username) pair names
SamePair(item) ==
    /\ item["title"] = f_title
    /\ IF f_user \in {None, <<>>} THEN ListedBlank(item)
       ELSE ~ListedBlank(item) /\ item["additional_information"] = f_user

\* C9: a null or empty input username matches exactly the listed items of the
\* title whose username is null, absent or empty, and a non-empty one exactly
\* those listing the very same username; the index keeps every non-null listed
\* username as it is.
C9_NullIsEmpty ==
    /\ f_pc = "matched" =>
          /\ (f_result # None) <=> (\E i \in 1..Len(f_items) : SamePair(f_items[i]))
          /\ \A i \in 1..Len(f_items) : f_result = f_items[i]["id"] => SamePair(f_items[i])
    /\ f_pc \in {"indexed", "matched"} =>
          \A i \in 1..Len(f_items) : ~ListedBlank(f_items[i]) =>
              \E k \in 1..Len(f_index[f_items[i]["title"]]) :
                  f_index[f_items[i]["title"]][k] = [id |-> f_items[i]["id"], username |-> f_items[i]["additional_information"]]

\* an empty input username matched to an item listed with a null username
C9_Witness ==
    /\ f_pc = "matched" /\ f_user = <<>> /\ Len(f_items) = 2
    /\ "additional_information" \in DOMAIN f_items[2] /\ f_items[2]["additional_information"] = None
    /\ f_result = VaultId(2)

\* the export at the path given is readable and holds no secret-bearing item
NoSecretRun == ~args.license /\ Truthy(args.file) /\ export_file.parses /\ NumTotp(Get(export_file.data, "items", <<>>)) = 0
ListedOnly == trace = <<Cmd("version", <<>>, <<>>), Cmd("list", <<>>, <<>>)>>
ZeroSummary ==
    /\ Len(summary) = 1
    /\ summary[1].found_in_bw = 0 /\ summary[1].matched = 0 /\ summary[1].orphans = <<>>
    /\ stats = ZeroStats
    /\ ~args.dry_run => summary[1].actions = <<0, 0>>

\* C10 as stated: every run on an export without a secret-bearing item ends
\* having queried the vault, with no edit command and the all-zero summary.
C10_AsStated == (pc = "exited" /\ NoSecretRun) => ListedOnly /\ ZeroSummary

\* C10 as amended: such a run that the operator does not refuse at the prompt
\* and that meets no fatal error ends having issued the version probe and the
\* list query and nothing else, with the all-zero summary and no orphan.
C10_ZeroRunSummary ==
    (pc = "exited" /\ NoSecretRun /\ exit_code = 0 /\ (args.dry_run \/ Lower(confirm) = AnswerYes)) => ListedOnly /\ ZeroSummary

\* a confirmed live run over two items without a secret, with a vault item listed
C10_Witness ==
    /\ pc = "exited" /\ NoSecretRun /\ ~args.dry_run /\ Len(summary) = 1
    /\ Len(items_processed) = 2 /\ DOMAIN op_lookup # {}

\* the number of items of the export examined so far, the examined items that
\* bear a secret and have a vault match, and the edit commands issued so far
Examined == IF pc \in {"wait_delete", "wait_set"} THEN idx ELSE idx - 1
MatchedIdx == {i \in 1..Examined : HasTotp(items_processed[i]) /\ Hits(op_lookup, ItemTitle(items_processed[i]), ItemUsername(items_processed[i])) # {}}
EditSeq == SelectSeq(trace, IsEdit)
Rank(i) == Cardinality({j \in MatchedIdx : j <= i})
FirstHitId(item) ==
    LET hits == Hits(op_lookup, ItemTitle(item), ItemUsername(item))
    IN  op_lookup[ItemTitle(item)][CHOOSE i \in hits : \A j \in hits : i <= j].id
\* the commands before the first edit command
QueriesBefore == SelectSeq(trace, LAMBDA c : ~IsEdit(c))
\* one command per matched item and none for another, in the order of the export,
\* each returned before the next item is examined
OneCommandEach ==
    /\ Len(EditSeq) = Cardinality(MatchedIdx)
    /\ \A i \in MatchedIdx : EditSeq[Rank(i)].id = FirstHitId(items_processed[i])
    /\ \A k \in 1..Len(trace) : IsEdit(trace[k]) => k > Len(QueriesBefore)
    /\ Len(results) = IF pc \in {"wait_delete", "wait_set"} THEN Len(EditSeq) - 1 ELSE Len(EditSeq)
    /\ pc \in {"wait_delete", "wait_set"} => HasTotp(CurItem) /\ EditSeq[Len(EditSeq)].id = FirstHitId(CurItem)

\* C11 as stated: in a live run one external query builds the index, then one
\* command is issued per matched item, in order, each returned before the next
C11_AsStated ==
    ~args.dry_run =>
        /\ pc \in LoopPcs => Len(QueriesBefore) = 1
        /\ OneCommandEach

\* C11: in a live run two external queries build the index, the version probe and
\* then the list query; after them exactly one command is issued per matched item
\* and none for any other item, in the order of the export, and each command has
\* returned before the next item is examined, so that no command is issued twice
C11_StrictlySequential ==
    ~args.dry_run =>
        /\ pc \in LoopPcs => QueriesBefore = <<Cmd("version", <<>>, <<>>), Cmd("list", <<>>, <<>>)>>
        /\ OneCommandEach

\* a finished live run whose first secret-bearing item was an orphan and whose
\* second one was matched: one command, issued for the second item, and returned
C11_Witness ==
    /\ ~args.dry_run /\ pc = "exited" /\ Len(summary) = 1
    /\ Len(EditSeq) = 1 /\ Len(results) = 1
    /\ Len(orphans) = 1 /\ ~(1 \in MatchedIdx) /\ 2 \in MatchedIdx

\* C12: the set command is only awaited in a live update run; when it fails,
\* whatever its standard error, the failure is reported and fail grows by one with
\* success as it was; when it succeeds, success grows by one with fail as it was.
C12_SetFailureCounted ==
    [][(pc = "wait_set") =>
          /\ ~args.clear /\ ~args.dry_run
          /\ Len(results') = Len(results) + 1
          /\ IF results'[Len(results')] = 0
             THEN stats' = [stats EXCEPT !.success = @ + 1] /\ err' = None
             ELSE /\ stats' = [stats EXCEPT !.fail = @ + 1]
                  /\ err' # None
                  /\ last'.msg = "fail_update"]_vars

\* a live update run with one success and then a "field not found" failure
C12_Witness ==
    /\ ~args.clear /\ ~args.dry_run /\ pc = "exited" /\ Len(summary) = 1
    /\ results = <<0, 1>> /\ stats.success = 1 /\ stats.fail = 1
    /\ err # None /\ Contains(err, FieldNotFound) /\ last.msg = "fail_update"

\* the command a live run owes to a matched item of the export
CommandFor(item) ==
    IF args.clear
    THEN Cmd("delete", FirstHitId(item), <<>>)
    ELSE Cmd("set", FirstHitId(item), construct_otp_url(item["login"]["totp"], ItemTitle(item)))

\* C13: in a live clear run every edit command is a delete of the one-time
\* password field of the matched identifier and none is a set; in a live update
\* run every edit command is a set on the matched identifier whose value is the
\* otpauth URI built from the item's secret and title, and none is a delete.
C13_ModeSelectsCommand ==
    ~args.dry_run =>
        /\ \A k \in Edits : trace[k].cmd = (IF args.clear THEN "delete" ELSE "set")
        /\ \A k \in Edits : args.clear \/ StartsWith(trace[k].value, OtpauthPrefix \o TotpPath)
        /\ Len(EditSeq) = Cardinality(MatchedIdx)
        /\ \A i \in MatchedIdx : EditSeq[Rank(i)] = CommandFor(items_processed[i])

\* a finished live update run whose second command set, on the matched
\* identifier, the URI of an item titled "M L" with the title percent-encoded
C13_Witness ==
    /\ ~args.clear /\ ~args.dry_run /\ pc = "exited" /\ Len(summary) = 1
    /\ Len(EditSeq) = 2
    /\ ItemTitle(items_processed[2]) = TitleB
    /\ EditSeq[2] = Cmd("set", VaultId(1), OtpauthPrefix \o TotpPath \o <<"M", "%", "2", "0", "L">> \o SecretParam \o <<"A", "B", "C", "1">> \o IssuerParam)

\* the places of the listing that bear a title
ListedAt(title) == {i \in 1..Len(f_items) : f_items[i]["title"] = title}

\* C14: when get_op_items has returned its index, the commands it ran are the
\* version probe and then the list query, and no other; the index has the listed
\* titles for keys, and under each title one entry per listed item of that
\* title, in the order of the listing, with the item's identifier and its
\* username, the empty string for a null or absent one.
C14_TwoQueriesFullIndex ==
    f_pc \in {"indexed", "matched"} =>
        /\ f_trace = <<Cmd("version", <<>>, <<>>), Cmd("list", <<>>, <<>>)>>
        /\ DOMAIN f_index = {f_items[i]["title"] : i \in 1..Len(f_items)}
        /\ \A t \in DOMAIN f_index :
              /\ Len(f_index[t]) = Cardinality(ListedAt(t))
              /\ \A i \in ListedAt(t) :
                    f_index[t][Cardinality({j \in ListedAt(t) : j <= i})] =
                        [id |-> f_items[i]["id"],
                         username |-> IF ListedBlank(f_items[i]) THEN <<>> ELSE f_items[i]["additional_information"]]

\* an index built from two listed items of one title, the first with a null
\* username and the second with a username
C14_Witness ==
    /\ f_pc = "indexed" /\ Len(f_trace) = 2 /\ Len(f_items) = 2
    /\ f_items[1]["title"] = TitleB /\ f_items[2]["title"] = TitleB
    /\ "additional_information" \in DOMAIN f_items[1] /\ f_items[1]["additional_information"] = None
    /\ f_index[TitleB] = <<[id |-> VaultId(1), username |-> <<>>], [id |-> VaultId(2), username |-> UserAl]>>

\* a string without the whitespace before its first and after its last character
\* that is not whitespace
Trimmed(s) ==
    LET inner == {k \in 1..Len(s) : s[k] \notin Whitespace}
    IN  IF inner = {} THEN <<>>
        ELSE SubSeq(s, CHOOSE i \in inner : \A k \in inner : i <= k, CHOOSE j \in inner : \A k \in inner : k <= j)
\* the string begins with "otpauth://" in some letter case
HasSchemeAnyCase(s) == Len(s) >= Len(OtpauthPrefix) /\ \A k \in 1..Len(OtpauthPrefix) : LowerChar(s[k]) = OtpauthPrefix[k]

\* C15 as stated: a secret that, trimmed, begins with the scheme prefix in any
\* letter case is returned unchanged
C15_AsStated ==
    (u_pc \in {"once", "twice"} /\ HasSchemeAnyCase(Trimmed(u_secret))) => u_once = u_secret

\* C15: a secret that, trimmed of its surrounding whitespace, begins with the
\* scheme prefix in any letter case is returned trimmed and otherwise as it is,
\* its letter case kept, and with any label the result is the same.
C15_UriPassedThroughTrimmed ==
    (u_pc \in {"once", "twice"} /\ HasSchemeAnyCase(Trimmed(u_secret))) =>
        /\ u_once = Trimmed(u_secret)
        /\ \A label \in Labels : construct_otp_url(u_secret, label) = u_once

\* a URI in upper case with a blank before it, returned without the blank
C15_Witness ==
    /\ u_pc = "once"
    /\ Len(u_secret) > Len(UpperPrefix) + 1
    /\ u_secret[1] = " " /\ SubSeq(u_secret, 2, Len(UpperPrefix) + 1) = UpperPrefix
    /\ u_secret[Len(u_secret)] \notin Whitespace
    /\ u_once = Tail(u_secret)

\* the returned commands that exited zero, those that failed, and the failed
\* ones that the fail counter does not count
ZeroExits == Cardinality({k \in 1..Len(results) : results[k] = 0})
FailedCommands == Cardinality({k \in 1..Len(results) : results[k] # 0})
BenignFailures == FailedCommands - stats.fail
Waiting == pc \in {"wait_delete", "wait_set"}

CountersConserved ==
    /\ stats.found_in_bw = stats.matched + Len(orphans)
    /\ stats.found_in_bw = NumTotp(SubSeq(items_processed, 1, Examined))
    /\ stats.success + stats.fail <= stats.matched
    /\ ~args.dry_run =>
          /\ stats.matched = Len(EditSeq)
          /\ stats.success = ZeroExits
          /\ BenignFailures >= 0
          /\ ~args.clear => BenignFailures = 0
          /\ ~Waiting => stats.matched = stats.success + stats.fail + BenignFailures

\* a step never lowers a counter, and a failed command is left out of the fail
\* counter exactly when it is a delete whose standard error has "field not found"
CountersStep ==
    /\ stats'.found_in_bw >= stats.found_in_bw /\ stats'.matched >= stats.matched
    /\ stats'.success >= stats.success /\ stats'.fail >= stats.fail
    /\ Len(orphans') >= Len(orphans)
    /\ BenignFailures' = BenignFailures + (IF Waiting /\ err' # None /\ args.clear /\ Contains(err', FieldNotFound) THEN 1 ELSE 0)

\* C16: in every state of a run discovered = matched + orphans = the secret-bearing
\* items examined so far, and succeeded + failed <= matched; in a live run matched
\* is the number of edit commands issued, succeeded the number of those that
\* exited zero and, once the command of the item has returned, matched =
\* succeeded + failed + the benign delete failures; no counter ever decreases.
C16_CounterConservation == [](CountersConserved) /\ [][CountersStep]_vars

\* a live clear run after two items: an orphan, and a match whose delete
\* failed with "field not found"
C16_Witness ==
    /\ args.clear /\ ~args.dry_run /\ pc = "loop" /\ idx = 3
    /\ stats = [found_in_bw |-> 2, matched |-> 1, success |-> 0, fail |-> 0]
    /\ Len(orphans) = 1 /\ results = <<1>> /\ BenignFailures = 1 /\ Contains(err, FieldNotFound)

\* the run has ended at the prompt: status 0, no command issued, no summary
EndedAtPrompt == pc = "exited" /\ exit_code = 0 /\ last.msg = "aborted" /\ trace = <<>> /\ summary = <<>>
\* a dry run is not asked for an answer, and runs the two queries of get_op_items
DryRunStillQueries ==
    args.dry_run =>
        /\ confirm = None
        /\ pc = "op_list" => trace = <<Cmd("version", <<>>, <<>>)>>
        /\ (pc \in {"load"} \cup LoopPcs \/ summary # <<>>) => ListedOnly

\* C17 as stated: a live run answered with anything other than "yes" ends at the
\* prompt; a dry run is not asked and still runs the queries
C17_AsStated ==
    /\ (~args.dry_run /\ confirm # None /\ confirm # AnswerYes) => EndedAtPrompt
    /\ DryRunStillQueries

\* C17: a live run answered with anything other than "yes" in some letter case
\* ends at the prompt with status 0, with no external command issued, neither
\* the version probe, the list query nor an edit, and with no summary; a dry run
\* is not asked for an answer and still runs the two queries that build the index.
C17_RefusedRunDoesNothing ==
    /\ (~args.dry_run /\ confirm # None /\ Lower(confirm) # AnswerYes) => EndedAtPrompt
    /\ DryRunStillQueries

\* a live run on an export file that is there, answered " yes", with a blank
\* before the word: ended at the prompt
C17_Witness ==
    /\ ~args.dry_run /\ confirm = <<" ", "y", "e", "s">> /\ export_file.parses
    /\ pc = "exited" /\ exit_code = 0 /\ trace = <<>> /\ summary = <<>>

====
